---- MODULE Spec2Model ----
(***************************************************************************)
(* Model of the card-game React front end: the NameChange component (a     *)
(* local draft of the user name staged against the redux store) and the    *)
(* App component's grid of Cells.                                          *)
(*                                                                         *)
(* Text produced by template literals (keys, labels) is a sequence of      *)
(* one-character strings, so that formatting is computed, not assumed.     *)
(* User names are opaque strings: the code only copies and compares them.  *)
(***************************************************************************)
EXTENDS Integers, Sequences, FiniteSets, TLC

VARIABLES
    committed,      \* store: state.user.name
    mounted,        \* whether <App/> (and so NameChange) is mounted
    inputUserName,  \* NameChange: the useState hook's current value
    view,           \* NameChange: what its last render produced
    dispatched,     \* redux actions dispatched during the last event
    hist,           \* the last HistLen events handled, oldest first
    gridData,       \* the coordinate rows App maps over
    gridView        \* App: the grid element its last render produced

vars == <<committed, mounted, inputUserName, view, dispatched, hist,
          gridData, gridView>>

----------------------------------------------------------------------------
(* Bounds *)

MaxNames == 3
HistLen == 4
MaxRows == 2
MaxRowLen == 2
MaxCoord == 1

NameUniverse == <<"", "Alice", "Bob", "Carol", "Dave">>

Names ==
    {NameUniverse[i] : i \in 1..(IF MaxNames < Len(NameUniverse)
                                    THEN MaxNames ELSE Len(NameUniverse))}

\* hook state of a component that is not mounted
None == "<unmounted>"

----------------------------------------------------------------------------
(* Template-literal formatting *)

Digits == <<"0", "1", "2", "3", "4", "5", "6", "7", "8", "9">>

RECURSIVE Dec(_)
\* `${n}` for a non-negative integer n
Dec(n) ==
    IF n < 10 THEN <<Digits[n + 1]>>
    ELSE Dec(n \div 10) \o <<Digits[(n % 10) + 1]>>

----------------------------------------------------------------------------
(* App: the grid *)

grid ==
    << << <<0, 2>>, <<0, 3>>, <<0, 4>> >>,
       << <<1, 0>>, <<1, 1>>, <<1, 2>>, <<1, 3>>, <<1, 4>>, <<1, 5>>, <<1, 6>> >>,
       << <<2, 0>>, <<2, 1>>, <<2, 2>>, <<2, 3>>, <<2, 4>>, <<2, 5>>, <<2, 6>> >>,
       << <<3, 0>>, <<3, 1>>, <<3, 2>>, <<3, 3>>, <<3, 4>>, <<3, 5>>, <<3, 6>> >>,
       << <<4, 0>>, <<4, 1>>, <<4, 2>>, <<4, 3>>, <<4, 4>>, <<4, 5>>, <<4, 6>> >>,
       << <<5, 2>>, <<5, 3>>, <<5, 4>> >> >>

\* repeat(7, ...) in gridTemplateColumns
gridTemplateColumns == 7

CellSwapped(x, y) ==
    <<"(">> \o Dec(y) \o <<",", " ">> \o Dec(x) \o <<")">>

\* Cell: `(${x}, ${y})`
Cell(x, y) ==
    <<"(">> \o Dec(x) \o <<",", " ">> \o Dec(y) \o <<")">>

KeyRowOnly(x, y) == Dec(x)

\* key={`${x}-${y}`}
Key(x, y) == Dec(x) \o <<"-">> \o Dec(y)

GridAreaZeroBased(x, y) ==
    [rowStart |-> x, colStart |-> y, rowEnd |-> x, colEnd |-> y]

\* gridArea: `${x+1} / ${y+1} / ${x+1} / ${y+1}`
\* (row-start / column-start / row-end / column-end)
GridArea(x, y) ==
    [rowStart |-> x + 1, colStart |-> y + 1, rowEnd |-> x + 1, colEnd |-> y + 1]

\* the <div key=... style=...><Cell x y/></div> built for one coordinate
CellDiv(c) ==
    [key      |-> Key(c[1], c[2]),
     gridArea |-> GridArea(c[1], c[2]),
     x        |-> c[1],
     y        |-> c[2],
     text     |-> Cell(c[1], c[2])]

\* the <div className="grid"> element: grid.map(row => row.map(...))
AppGrid(g) ==
    [columns  |-> gridTemplateColumns,
     children |-> [i \in 1..Len(g) |->
                      [j \in 1..Len(g[i]) |-> CellDiv(g[i][j])]]]

NoGrid == [columns |-> 0, children |-> <<>>]

----------------------------------------------------------------------------
(* The store (user slice) *)

\* action creator setUserName(newValue)
setUserName(newValue) == [type |-> "user/setUserName", payload |-> newValue]

\* the slice's reducer: the name becomes the payload
userReducer(name, action) ==
    IF action.type = "user/setUserName" THEN action.payload ELSE name

\* selectUserName(state)
selectUserName(name) == name

RECURSIVE Dispatch(_, _)
\* the store after dispatching the actions in order
Dispatch(name, actions) ==
    IF actions = <<>> THEN name
    ELSE Dispatch(userReducer(name, Head(actions)), Tail(actions))

----------------------------------------------------------------------------
(* NameChange *)

NoMemo == [deps |-> <<>>, value |-> FALSE]

NoView ==
    [userName |-> None, inputUserName |-> None, memo |-> NoMemo,
     disabled |-> TRUE]

InitialInputEmpty(userName) == ""

\* useState<string>(userName): the initial hook state
InitialInput(userName) == userName

MemoDepsUserNameOnly(userName, input) == <<userName>>

\* the dependency list of the useMemo
MemoDeps(userName, input) == <<userName, input>>

\* useMemo(() => userName !== inputUserName, [userName, inputUserName])
canChangeName(prev, userName, input) ==
    IF prev.deps = MemoDeps(userName, input) THEN prev
    ELSE [deps |-> MemoDeps(userName, input), value |-> (userName # input)]

ButtonNeverDisabled(canChange) == FALSE

\* disabled={!canChangeName}
ButtonDisabled(canChange) == ~canChange

\* one run of the NameChange function body
NameChange(storeName, hookState, prevMemo) ==
    LET userName == selectUserName(storeName)
        memo     == canChangeName(prevMemo, userName, hookState)
    IN  [userName      |-> userName,
         inputUserName |-> hookState,
         memo          |-> memo,
         disabled      |-> ButtonDisabled(memo.value)]

handleInputChangeWrites(value) ==
    [state |-> value, actions |-> <<setUserName(value)>>]

\* handleInputChange: setInputUserName(event.target.value)
handleInputChange(value) ==
    [state |-> value, actions |-> <<>>]

handleNameChangeStale(v) ==
    [state |-> inputUserName, actions |-> <<setUserName(v.userName)>>]

handleNameChangeTwice(v) ==
    [state |-> inputUserName,
     actions |-> <<setUserName(v.userName), setUserName(v.inputUserName)>>]

\* handleNameChange: dispatch(setUserName(inputUserName)), with the
\* inputUserName the handler closed over at the render v
handleNameChange(v) ==
    [state |-> inputUserName, actions |-> <<setUserName(v.inputUserName)>>]

----------------------------------------------------------------------------
(* Events *)

Event(kind, value) == [kind |-> kind, value |-> value]

Push(h, e) ==
    LET s == Append(h, e)
    IN  IF Len(s) > HistLen THEN Tail(s) ELSE s

Last(h) == h[Len(h)]

\* One turn of the event loop on the mounted component: the handler's
\* state update and dispatches are applied, then NameChange renders again.
Turn(effect, ev) ==
    /\ dispatched' = effect.actions
    /\ committed' = Dispatch(committed, effect.actions)
    /\ inputUserName' = effect.state
    /\ view' = NameChange(committed', inputUserName', view.memo)
    /\ hist' = Push(hist, ev)
    /\ UNCHANGED <<mounted, gridData, gridView>>

\* root.render(<Provider><App/></Provider>): first render of NameChange
\* and of the grid
Mount ==
    /\ ~mounted
    /\ mounted' = TRUE
    /\ inputUserName' = InitialInput(selectUserName(committed))
    /\ view' = NameChange(committed, inputUserName', NoMemo)
    /\ gridView' = AppGrid(gridData)
    /\ dispatched' = <<>>
    /\ hist' = Push(hist, Event("mount", ""))
    /\ UNCHANGED <<committed, gridData>>

\* the component is torn down: its hook state and output are discarded
Unmount ==
    /\ mounted
    /\ mounted' = FALSE
    /\ inputUserName' = None
    /\ view' = NoView
    /\ gridView' = NoGrid
    /\ dispatched' = <<>>
    /\ hist' = Push(hist, Event("unmount", ""))
    /\ UNCHANGED <<committed, gridData>>

\* onChange of the <input>
Edit ==
    \E newText \in Names :
        /\ mounted
        /\ Turn(handleInputChange(newText), Event("change", newText))

\* onClick of the Submit <button>; a disabled button delivers no click
Commit ==
    /\ mounted
    /\ ~view.disabled
    /\ Turn(handleNameChange(view), Event("click", ""))

\* a render with no state change (the selector is read again)
Rerender ==
    /\ mounted
    /\ Turn([state |-> inputUserName, actions |-> <<>>], Event("render", ""))

InitController ==
    /\ committed \in Names
    /\ mounted = FALSE
    /\ inputUserName = None
    /\ view = NoView
    /\ dispatched = <<>>
    /\ hist = <<>>
    /\ gridView = NoGrid

Init ==
    /\ InitController
    /\ gridData = grid

Next ==
    \/ Mount
    \/ Unmount
    \/ Edit
    \/ Commit
    \/ Rerender

Spec == Init /\ [][Next]_vars

----------------------------------------------------------------------------
(* The grid layout applied to arbitrary small coordinate rows *)

Coords == (0..MaxCoord) \X (0..MaxCoord)

Rows == UNION {[1..m -> Coords] : m \in 0..MaxRowLen}

BoundedGrids == UNION {[1..n -> Rows] : n \in 1..MaxRows}

LayoutInit ==
    /\ InitController
    /\ gridData \in BoundedGrids

LayoutNext == Mount

LayoutSpec == LayoutInit /\ [][LayoutNext]_vars

----------------------------------------------------------------------------
(* Properties *)

\* the step handled an event of this kind
IsStep(kind) == hist' # hist /\ Last(hist').kind = kind

\* the last n events, oldest first (<<>> when fewer were handled)
Recent(n) ==
    IF Len(hist) < n THEN <<>> ELSE SubSeq(hist, Len(hist) - n + 1, Len(hist))

\* C1 - Draft isolation: an Edit(newText) step sets the draft (and what the
\* input shows) to newText and leaves the committed name unchanged, for
\* every newText including the empty string.
DraftIsolation ==
    [][\A newText \in Names :
          (hist' # hist /\ Last(hist') = Event("change", newText))
             => /\ inputUserName' = newText
                /\ view'.inputUserName = newText
                /\ committed' = committed
                /\ selectUserName(committed') = selectUserName(committed)]_vars

DraftIsolationWitness ==
    /\ hist # <<>>
    /\ Last(hist) = Event("change", "Bob")
    /\ committed = "Alice"
    /\ inputUserName = "Bob"

DraftIsolationWitnessEmpty ==
    /\ hist # <<>>
    /\ Last(hist) = Event("change", "")
    /\ committed = "Alice"
    /\ inputUserName = ""

\* C2 - Enablement law: whenever the component is mounted, canChangeName is
\* true exactly when the draft differs from the committed name, and the
\* Submit button is disabled exactly when they are equal.
EnablementLaw ==
    mounted =>
        /\ view.memo.value <=> (inputUserName # committed)
        /\ view.disabled <=> (inputUserName = committed)

EnablementLawWitness ==
    /\ mounted
    /\ inputUserName = ""
    /\ committed = "Alice"
    /\ view.memo.value
    /\ Len(hist) >= 3
    /\ hist[Len(hist) - 1].kind = "click"

\* C3 - Commit effect and visibility: a Commit step taken with draft d and
\* committed c, d # c, sets committed to d; the render that follows reads d
\* and canChangeName is false there.
CommitEffect ==
    [][(IsStep("click") /\ inputUserName # committed)
          => /\ committed' = inputUserName
             /\ selectUserName(committed') = inputUserName
             /\ view'.userName = inputUserName
             /\ inputUserName' = inputUserName
             /\ ~view'.memo.value]_vars

CommitEffectWitness ==
    /\ hist # <<>>
    /\ Last(hist).kind = "click"
    /\ Recent(2) # <<>>
    /\ Recent(2)[1] = Event("change", "Bob")
    /\ committed = "Bob"
    /\ view.userName = "Bob"
    /\ ~view.memo.value

\* C4 - Commit happens only when canCommit is true: no Commit step is taken
\* from a state with draft = committed, and no Commit step directly follows
\* another Commit step.
CommitOnlyWhenEnabled ==
    [][IsStep("click")
          => /\ inputUserName # committed
             /\ view.memo.value
             /\ (hist # <<>> => Last(hist).kind # "click")]_vars

CommitOnlyWhenEnabledWitness ==
    /\ hist # <<>>
    /\ Last(hist).kind = "click"
    /\ view.disabled
    /\ inputUserName = committed
    /\ inputUserName = "Alice"

\* C5 - Round trip: after Edit(X), Commit, teardown and a fresh mount, the
\* fresh instance has draft = committed = X; and every mount initialises
\* the draft to the committed name.
RoundTrip ==
    /\ (hist # <<>> /\ Last(hist).kind = "mount")
          => /\ inputUserName = committed
             /\ view.inputUserName = committed
    /\ \A X \in Names :
          Recent(4) = <<Event("change", X), Event("click", ""),
                        Event("unmount", ""), Event("mount", "")>>
             => /\ inputUserName = X
                /\ committed = X
                /\ view.userName = X

RoundTripWitness ==
    /\ Recent(4) = <<Event("change", "Bob"), Event("click", ""),
                     Event("unmount", ""), Event("mount", "")>>
    /\ mounted
    /\ inputUserName = "Bob"
    /\ committed = "Bob"

\* C6 - Single writer path: committed changes only in a Commit step; a
\* Commit step dispatches exactly one action, whose payload is the draft,
\* and committed becomes that draft; every other step dispatches nothing.
SingleWriter ==
    [][/\ committed' # committed => IsStep("click")
       /\ IsStep("click")
             => /\ Len(dispatched') = 1
                /\ dispatched'[1] = setUserName(inputUserName)
                /\ committed' = inputUserName
       /\ ~IsStep("click") => dispatched' = <<>>]_vars

SingleWriterWitness ==
    /\ Len(dispatched) = 1
    /\ dispatched[1].payload = "Alice"
    /\ committed = "Alice"
    /\ hist # <<>>
    /\ Last(hist).kind = "click"

\* the coordinate set of the production grid, written out independently
ProductionCoordinates ==
    ({0, 5} \X (2..4)) \cup ((1..4) \X (0..6))

\* the rendered cell divs, as a set of (row position, column position, div)
RenderedCells ==
    UNION {{<<i, j, gridView.children[i][j]>> :
               j \in DOMAIN gridView.children[i]} :
           i \in DOMAIN gridView.children}

Max(S) == CHOOSE m \in S : \A n \in S : n <= m

\* C7 - Layout determinism: for the production coordinate set every
\* coordinate (r, c) has a cell, each cell is placed at row line r+1 and
\* column line c+1, and the grid has 1 + max(column index) = 7 columns.
LayoutDeterminism ==
    mounted =>
        /\ {<<e[3].x, e[3].y>> : e \in RenderedCells} = ProductionCoordinates
        /\ \A e \in RenderedCells :
              /\ e[3].gridArea.rowStart = e[3].x + 1
              /\ e[3].gridArea.colStart = e[3].y + 1
              /\ e[3].gridArea.rowEnd = e[3].gridArea.rowStart
              /\ e[3].gridArea.colEnd = e[3].gridArea.colStart
        /\ gridView.columns = 1 + Max({p[2] : p \in ProductionCoordinates})
        /\ gridView.columns = 7

LayoutDeterminismWitness ==
    /\ mounted
    /\ Cardinality(RenderedCells) = 34
    /\ \E e \in RenderedCells :
          /\ e[3].x = 5 /\ e[3].y = 4
          /\ e[3].gridArea.rowStart = 6 /\ e[3].gridArea.colStart = 5

\* C8 - No duplicate keys: the keys of the rendered cells of the production
\* grid are pairwise distinct, and no two grid entries share (row, column).
NoDuplicateKeys ==
    mounted =>
        \A e, f \in RenderedCells :
            (e[1] # f[1] \/ e[2] # f[2])
               => /\ e[3].key # f[3].key
                  /\ <<e[3].x, e[3].y>> # <<f[3].x, f[3].y>>

NoDuplicateKeysWitness ==
    /\ mounted
    /\ \E e, f \in RenderedCells :
          /\ e[3].key = <<"1", "-", "2">>
          /\ f[3].key = <<"2", "-", "1">>

HasDuplicate(g) ==
    \E i, k \in DOMAIN g : \E j \in DOMAIN g[i] : \E l \in DOMAIN g[k] :
        (i # k \/ j # l) /\ g[i][j] = g[k][l]

RECURSIVE Value(_)
\* the number a sequence of decimal digits denotes (-1 if it is not one)
Value(ds) ==
    IF ds = <<>> THEN -1
    ELSE LET d == Last(ds)
             rest == SubSeq(ds, 1, Len(ds) - 1)
         IN  IF \A k \in 1..10 : Digits[k] # d THEN -1
             ELSE LET v == (CHOOSE k \in 1..10 : Digits[k] = d) - 1
                  IN  IF rest = <<>> THEN v
                      ELSE IF Value(rest) < 0 THEN -1
                      ELSE 10 * Value(rest) + v

\* text reads "(" r "," " " c ")" with r and c in decimal
IsLabelOf(text, r, c) ==
    /\ Len(text) >= 6
    /\ text[1] = "("
    /\ Last(text) = ")"
    /\ \E k \in 2..(Len(text) - 2) :
          /\ text[k] = ","
          /\ text[k + 1] = " "
          /\ Value(SubSeq(text, 2, k - 1)) = r
          /\ Value(SubSeq(text, k + 2, Len(text) - 1)) = c

\* C10 - Label exactness: the cell of each coordinate (r, c) shows exactly
\* "(r, c)"; the cell for (2, 5) shows "(2, 5)".
LabelExactness ==
    mounted =>
        /\ \A e \in RenderedCells :
              /\ <<e[3].x, e[3].y>> = gridData[e[1]][e[2]]
              /\ IsLabelOf(e[3].text, gridData[e[1]][e[2]][1],
                           gridData[e[1]][e[2]][2])
        /\ \A e \in RenderedCells :
              (e[3].x = 2 /\ e[3].y = 5)
                 => e[3].text = <<"(", "2", ",", " ", "5", ")">>

LabelExactnessWitness ==
    /\ mounted
    /\ \E e \in RenderedCells :
          /\ gridData[e[1]][e[2]] = <<2, 5>>
          /\ e[3].text = <<"(", "2", ",", " ", "5", ")">>

====
